---- MODULE Spec2Model ----
(***************************************************************************)
(* Model of the tweet-sentiment dashboard (frontend/src/App.tsx): the      *)
(* request lifecycle of the predict / explore / batch flows, the analytics *)
(* derivations computed from the stored explore result, the local row      *)
(* filter, and the batch merge / CSV export pipeline.                      *)
(*                                                                         *)
(* Strings are sequences of one-character strings, so that trim,           *)
(* toLowerCase, includes and String() are computed and not assumed.        *)
(* JavaScript values whose dynamic type matters (tweet_id, CSV cells, the  *)
(* fields of a merged row) are tagged records [t, v].                      *)
(* Scores are exact rationals [num, den] with den > 0.                     *)
(***************************************************************************)
EXTENDS Integers, Sequences, FiniteSets, TLC

(* ------------------------------ bounds ------------------------------- *)
MaxMixLen == 2
MaxCount == 2
MaxDistLen == 2
MaxRankEntities == 22
MaxQueryLen == 2
MaxSamples == 2
MaxFileRows == 2
MaxLabels == 2

(* --------------------------- JavaScript values ----------------------- *)
UNDEFINED == [t |-> "undefined"]
NULL == [t |-> "null"]
S(s) == [t |-> "str", v |-> s]
N(n) == [t |-> "num", v |-> n]

UpperChars == <<"A","B","C","D","E","F","G","H","I","J","K","L","M",
                "N","O","P","Q","R","S","T","U","V","W","X","Y","Z">>
LowerChars == <<"a","b","c","d","e","f","g","h","i","j","k","l","m",
                "n","o","p","q","r","s","t","u","v","w","x","y","z">>
DigitChars == <<"0","1","2","3","4","5","6","7","8","9">>
WhiteSpace == {" ", "\t", "\n"}

LowerChar(c) ==
  IF \E k \in 1..Len(UpperChars) : UpperChars[k] = c
  THEN LowerChars[CHOOSE k \in 1..Len(UpperChars) : UpperChars[k] = c]
  ELSE c

\* String.prototype.toLowerCase
ToLowerCase(s) == [i \in 1..Len(s) |-> LowerChar(s[i])]

\* String.prototype.trim
RECURSIVE TrimStart(_)
TrimStart(s) ==
  IF s # <<>> /\ Head(s) \in WhiteSpace THEN TrimStart(Tail(s)) ELSE s
RECURSIVE TrimEnd(_)
TrimEnd(s) ==
  IF s # <<>> /\ s[Len(s)] \in WhiteSpace
  THEN TrimEnd(SubSeq(s, 1, Len(s) - 1)) ELSE s
Trim(s) == TrimEnd(TrimStart(s))

\* String.prototype.includes
Includes(s, q) ==
  \E i \in 0..(Len(s) - Len(q)) : SubSeq(s, i + 1, i + Len(q)) = q

\* Number -> decimal string (non-negative integers)
RECURSIVE NumToString(_)
NumToString(n) ==
  IF n < 10 THEN <<DigitChars[n + 1]>>
  ELSE NumToString(n \div 10) \o <<DigitChars[(n % 10) + 1]>>

\* JavaScript truthiness
Truthy(x) ==
  CASE x.t = "str" -> x.v # <<>>
    [] x.t = "num" -> x.v # 0
    [] OTHER -> FALSE

\* a || b
JsOr(a, b) == IF Truthy(a) THEN a ELSE b

\* String(x)
JsString(x) ==
  CASE x.t = "str" -> x.v
    [] x.t = "num" -> NumToString(x.v)
    [] x.t = "null" -> <<"n","u","l","l">>
    [] OTHER -> <<"u","n","d","e","f","i","n","e","d">>

\* Array.prototype.slice(0, n)
Slice(seq, n) == SubSeq(seq, 1, IF Len(seq) < n THEN Len(seq) ELSE n)

\* Array.prototype.filter
Filter(seq, P(_)) ==
  LET f[i \in 0..Len(seq)] ==
        IF i = 0 THEN <<>>
        ELSE IF P(seq[i]) THEN Append(f[i - 1], seq[i]) ELSE f[i - 1]
  IN f[Len(seq)]

\* Array.prototype.map
Map(seq, F(_, _)) == [i \in 1..Len(seq) |-> F(seq[i], i)]

\* Array.prototype.sort(cmp) is stable; Before(a, b) stands for cmp(a, b) < 0.
\* The element at index i lands behind every element that sorts before it
\* and behind every earlier element that compares equal to it.
SortRank(seq, i, Before(_, _)) ==
  1 + Cardinality({j \in 1..Len(seq) :
                     \/ Before(seq[j], seq[i])
                     \/ (j < i /\ ~Before(seq[i], seq[j]))})
Sort(seq, Before(_, _)) ==
  [k \in 1..Len(seq) |->
     seq[CHOOSE i \in 1..Len(seq) : SortRank(seq, i, Before) = k]]

(* ------------------------- sentiment classes ------------------------- *)
POSITIVE == <<"P","o","s","i","t","i","v","e">>
NEGATIVE == <<"N","e","g","a","t","i","v","e">>
NEUTRAL == <<"N","e","u","t","r","a","l">>

(* ------------------------------- state ------------------------------- *)
VARIABLES
  meta,            \* Meta | null                       (useState, App.tsx:99)
  metaReq,         \* GET /meta: "pending" | "done" | "failed"
  active,          \* NavKey
  text,            \* single-tweet input
  pred,            \* PredictResponse | null
  predLoading,
  predReqs,        \* POST /predict requests in flight
  entity,          \* explorer entity filter
  explore,         \* ExploreResponse | null
  exploreLoading,
  exploreError,    \* string | null
  exploreReqs,     \* POST /explore requests in flight
  localSearch,
  batchPredRows,
  batchLoading,
  batchFilename,
  batchJobs,       \* uploads being parsed or awaiting POST /batch_predict
  download,        \* the last file handed to the browser for download
  srvExplore,      \* what the backend answers to POST /explore
  srvSentiments,   \* the label array the backend answers to POST /batch_predict
  file             \* the CSV file the user is about to select

appVars == <<meta, metaReq, active>>
predVars == <<text, pred, predLoading, predReqs>>
exploreVars == <<entity, explore, exploreLoading, exploreError, exploreReqs>>
batchVars == <<batchPredRows, batchLoading, batchFilename, batchJobs>>
envVars == <<srvExplore, srvSentiments, file>>
vars == <<meta, metaReq, active, text, pred, predLoading, predReqs, entity,
          explore, exploreLoading, exploreError, exploreReqs, localSearch,
          batchPredRows, batchLoading, batchFilename, batchJobs, download,
          srvExplore, srvSentiments, file>>

\* removal of the i-th element of a sequence
RemoveAt(seq, i) == SubSeq(seq, 1, i - 1) \o SubSeq(seq, i + 1, Len(seq))

META == [t |-> "meta"]
EmptyResponse == [distribution |-> <<>>, mix |-> <<>>,
                  leaderboard |-> <<>>, samples |-> <<>>]
NoFile == [name |-> "none.csv", ok |-> TRUE, data |-> <<>>]

(* ------------------ derived analytics (Explorer) --------------------- *)
\* MixStep with the Negative and Neutral assignments exchanged
MixStep_Swapped(map, m) ==
  LET present == \E j \in 1..Len(map) : map[j].entity = m.entity
      map1 == IF present THEN map
              ELSE Append(map, [entity |-> m.entity,
                                pos |-> 0, neg |-> 0, neu |-> 0])
      row == CHOOSE j \in 1..Len(map1) : map1[j].entity = m.entity
  IN [map1 EXCEPT
        ![row].pos = IF m.sentiment = POSITIVE THEN m.count ELSE @,
        ![row].neg = IF m.sentiment = NEUTRAL THEN m.count ELSE @,
        ![row].neu = IF m.sentiment = NEGATIVE THEN m.count ELSE @]

\* MixStep without the Neutral assignment
MixStep_NoNeutral(map, m) ==
  LET present == \E j \in 1..Len(map) : map[j].entity = m.entity
      map1 == IF present THEN map
              ELSE Append(map, [entity |-> m.entity,
                                pos |-> 0, neg |-> 0, neu |-> 0])
      row == CHOOSE j \in 1..Len(map1) : map1[j].entity = m.entity
  IN [map1 EXCEPT
        ![row].pos = IF m.sentiment = POSITIVE THEN m.count ELSE @,
        ![row].neg = IF m.sentiment = NEGATIVE THEN m.count ELSE @]

\* one step of the fold loop over explore.mix; the Map is kept as the
\* sequence of its entries in insertion order
\* MixStep adding the count of a repeated row to the stored one
MixStep_Summing(map, m) ==
  LET present == \E j \in 1..Len(map) : map[j].entity = m.entity
      map1 == IF present THEN map
              ELSE Append(map, [entity |-> m.entity, pos |-> 0, neg |-> 0, neu |-> 0])
      row == CHOOSE j \in 1..Len(map1) : map1[j].entity = m.entity
  IN [map1 EXCEPT
        ![row].pos = IF m.sentiment = POSITIVE THEN @ + m.count ELSE @,
        ![row].neg = IF m.sentiment = NEGATIVE THEN @ + m.count ELSE @,
        ![row].neu = IF m.sentiment = NEUTRAL THEN @ + m.count ELSE @]

MixStep(map, m) ==
  LET present == \E j \in 1..Len(map) : map[j].entity = m.entity
      map1 == IF present THEN map
              ELSE Append(map, [entity |-> m.entity,
                                pos |-> 0, neg |-> 0, neu |-> 0])
      row == CHOOSE j \in 1..Len(map1) : map1[j].entity = m.entity
  IN [map1 EXCEPT
        ![row].pos = IF m.sentiment = POSITIVE THEN m.count ELSE @,
        ![row].neg = IF m.sentiment = NEGATIVE THEN m.count ELSE @,
        ![row].neu = IF m.sentiment = NEUTRAL THEN m.count ELSE @]

\* for (const m of explore.mix): rows i..Len(mix) are folded into map.  The
\* test on next makes the step complete before the loop goes on (a step
\* never leaves the Map empty).
RECURSIVE MixLoop(_, _, _)
MixLoop(map, mix, i) ==
  IF i > Len(mix) THEN map
  ELSE LET next == MixStep(map, mix[i])
       IN IF next = <<>> THEN next ELSE MixLoop(next, mix, i + 1)
MixFold(mix) == MixLoop(<<>>, mix, 1)

\* TotalOf without the || 1 guard
TotalOf_NoFloor(v) == v.pos + v.neg + v.neu

\* v.pos + v.neg + v.neu || 1
TotalOf(v) == IF v.pos + v.neg + v.neu # 0 THEN v.pos + v.neg + v.neu ELSE 1

\* (v.pos - v.neg) / total, kept as an exact fraction
ScoreOf(v, total) == [num |-> v.pos - v.neg, den |-> total]

ScoreEntry(v) ==
  [entity |-> v.entity, pos |-> v.pos, neg |-> v.neg, neu |-> v.neu,
   total |-> TotalOf(v), score |-> ScoreOf(v, TotalOf(v))]

\* ByTotalDesc with the operands exchanged
ByTotalDesc_Ascending(a, b) == a.total - b.total < 0

\* comparators of the three sorts: cmp(a, b) < 0
ByTotalDesc(a, b) == b.total - a.total < 0
RatLess(x, y) == x.num * y.den < y.num * x.den
ByScoreDesc(a, b) == RatLess(b.score, a.score)
ByScoreAsc(a, b) == RatLess(a.score, b.score)

EntityScoresOf(ex) ==
  IF ex = NULL THEN <<>>
  ELSE LET map == MixFold(ex.mix)
           Entry(v, j) == ScoreEntry(v)
       IN Sort(Map(map, Entry), ByTotalDesc)

TopVolume == 20
TopShown == 8
\* TopPositiveOf without the cut to the 20 most discussed
TopPositiveOf_Global(scores) == Slice(Sort(scores, ByScoreDesc), TopShown)
TopPositiveOf(scores) == Slice(Sort(Slice(scores, TopVolume), ByScoreDesc), TopShown)
\* TopNegativeOf keeping only the entities with a score below zero
TopNegativeOf_OnlyNegative(scores) ==
  LET Below(x) == x.score.num < 0
  IN Slice(Sort(Filter(Slice(scores, TopVolume), Below), ByScoreAsc), TopShown)
TopNegativeOf(scores) == Slice(Sort(Slice(scores, TopVolume), ByScoreAsc), TopShown)

entityScores == EntityScoresOf(explore)
topPositiveEntities == TopPositiveOf(entityScores)
topNegativeEntities == TopNegativeOf(entityScores)

\* DistGet matching the class name without regard to case
DistGet_IgnoreCase(dist, c) ==
  LET hits == {i \in 1..Len(dist) :
                 ToLowerCase(dist[i].sentiment) = ToLowerCase(c)}
  IN IF hits = {} THEN 0
     ELSE dist[CHOOSE i \in hits : \A j \in hits : j <= i].count

\* new Map(explore.distribution.map(d => [d.sentiment, d.count])).get(c) ?? 0
DistGet(dist, c) ==
  LET hits == {i \in 1..Len(dist) : dist[i].sentiment = c}
  IN IF hits = {} THEN 0
     ELSE dist[CHOOSE i \in hits : \A j \in hits : j <= i].count

SentimentIndexOf(ex) ==
  IF ex = NULL THEN [num |-> 0, den |-> 1]
  ELSE LET neg == DistGet(ex.distribution, NEGATIVE)
           neu == DistGet(ex.distribution, NEUTRAL)
           pos == DistGet(ex.distribution, POSITIVE)
           denom == IF neg + neu + pos # 0 THEN neg + neu + pos ELSE 1
       IN [num |-> pos - neg, den |-> denom]

sentimentIndex == SentimentIndexOf(explore)

\* LinearProgress value={((sentimentIndex + 1) / 2) * 100}
GaugeValue(idx) == [num |-> (idx.num + idx.den) * 100, den |-> 2 * idx.den]
gaugeValue == GaugeValue(sentimentIndex)

\* Math.round(x.score * 100) in exact arithmetic: the nearest integer, a
\* half rounded up (IEEE rounding of the product can differ by one for a
\* score such as 23/40)
Round100(score) == (200 * score.num + score.den) \div (2 * score.den)
BarLabel(x, i) == x.entity
BarValue(x, i) == Round100(x.score)
\* TopPosBarOf with the chart padded to its full number of bars
TopPosBarOf_Padded(top) ==
  [labels |-> [i \in 1..TopShown |-> IF i <= Len(top) THEN top[i].entity ELSE <<>>],
   values |-> [i \in 1..TopShown |->
                 IF i <= Len(top) THEN Round100(top[i].score) ELSE 0]]
TopPosBarOf(top) == [labels |-> Map(top, BarLabel), values |-> Map(top, BarValue)]
TopNegBarOf(top) == [labels |-> Map(top, BarLabel), values |-> Map(top, BarValue)]
topPosBar == TopPosBarOf(topPositiveEntities)
topNegBar == TopNegBarOf(topNegativeEntities)

TopEntities == 10
BoardEntity(x, i) == x.entity
BoardMentions(x, i) == x.mentions
\* TopEntitiesBarOf with the values sorted on their own
TopEntitiesBarOf_SortedValues(ex) ==
  IF ex = NULL THEN [labels |-> <<>>, values |-> <<>>]
  ELSE LET Desc(a, b) == b < a
       IN [labels |-> Map(Slice(ex.leaderboard, TopEntities), BoardEntity),
           values |-> Sort(Map(Slice(ex.leaderboard, TopEntities), BoardMentions),
                           Desc)]
TopEntitiesBarOf(ex) ==
  IF ex = NULL THEN [labels |-> <<>>, values |-> <<>>]
  ELSE [labels |-> Map(Slice(ex.leaderboard, TopEntities), BoardEntity),
        values |-> Map(Slice(ex.leaderboard, TopEntities), BoardMentions)]
topEntitiesBar == TopEntitiesBarOf(explore)

\* Array.from(new Set(explore.mix.map((m) => m.entity))): the entities in
\* the order of their first row
DistinctStep(seen, m) ==
  IF \E j \in 1..Len(seen) : seen[j] = m.entity THEN seen
  ELSE Append(seen, m.entity)
RECURSIVE DistinctLoop(_, _, _)
DistinctLoop(seen, mix, i) ==
  IF i > Len(mix) THEN seen
  ELSE LET next == DistinctStep(seen, mix[i])
       IN IF next = <<>> THEN next ELSE DistinctLoop(next, mix, i + 1)
MixEntitiesOf(mix) == DistinctLoop(<<>>, mix, 1)

\* entities.forEach((e) => map.set(e, { Negative: 0, Neutral: 0, Positive: 0 }))
ZeroCells == [k \in {NEGATIVE, NEUTRAL, POSITIVE} |-> 0]
InitCell(e, i) == [entity |-> e, cells |-> ZeroCells]
\* map.get(m.entity)![m.sentiment] = m.count: any sentiment string is a key
CellStep(map, m) ==
  LET row == CHOOSE j \in 1..Len(map) : map[j].entity = m.entity
      old == map[row].cells
  IN [map EXCEPT ![row].cells =
        [k \in DOMAIN old \cup {m.sentiment} |->
           IF k = m.sentiment THEN m.count ELSE old[k]]]
RECURSIVE CellLoop(_, _, _)
CellLoop(map, mix, i) ==
  IF i > Len(mix) THEN map
  ELSE LET next == CellStep(map, mix[i])
       IN IF next = <<>> THEN next ELSE CellLoop(next, mix, i + 1)
MapGet(map, e) == map[CHOOSE j \in 1..Len(map) : map[j].entity = e].cells
SeriesOf(x, map) ==
  [x |-> x,
   neg |-> [i \in 1..Len(x) |-> MapGet(map, x[i])[NEGATIVE]],
   neu |-> [i \in 1..Len(x) |-> MapGet(map, x[i])[NEUTRAL]],
   pos |-> [i \in 1..Len(x) |-> MapGet(map, x[i])[POSITIVE]]]
EmptySeries == [x |-> <<>>, neg |-> <<>>, neu |-> <<>>, pos |-> <<>>]

ExplorerMixOf(ex) ==
  IF ex = NULL THEN EmptySeries
  ELSE LET entities == MixEntitiesOf(ex.mix)
           map == CellLoop(Map(entities, InitCell), ex.mix, 1)
       IN SeriesOf(entities, map)
explorerMix == ExplorerMixOf(explore)

\* the variant that keeps 10 entities on a small screen:
\* maxEntities = isSmDown ? 10 : entities.length; x = entities.slice(0, maxEntities)
SmDownEntities == 10
\* ExplorerMixSmOf with the three arrays built over all entities
ExplorerMixSmOf_Uncut(ex, isSmDown) ==
  IF ex = NULL THEN EmptySeries
  ELSE LET entities == MixEntitiesOf(ex.mix)
           map == CellLoop(Map(entities, InitCell), ex.mix, 1)
           maxEntities == IF isSmDown THEN SmDownEntities ELSE Len(entities)
       IN [SeriesOf(entities, map) EXCEPT !.x = Slice(entities, maxEntities)]
ExplorerMixSmOf(ex, isSmDown) ==
  IF ex = NULL THEN EmptySeries
  ELSE LET entities == MixEntitiesOf(ex.mix)
           map == CellLoop(Map(entities, InitCell), ex.mix, 1)
           maxEntities == IF isSmDown THEN SmDownEntities ELSE Len(entities)
       IN SeriesOf(Slice(entities, maxEntities), map)

\* explore.distribution.map((d, i) => ({ id: i, label: d.sentiment, value: d.count }))
DistSlice(d, i) == [id |-> i - 1, label |-> d.sentiment, value |-> d.count]
ExplorerDistOf(ex) == IF ex = NULL THEN <<>> ELSE Map(ex.distribution, DistSlice)
explorerDist == ExplorerDistOf(explore)

(* ------------------------------ row filter --------------------------- *)
\* explore.leaderboard.map((r, i) => ({ id: i + 1, ...r }))
LeaderboardRow(r, i) == [id |-> i, entity |-> r.entity, mentions |-> r.mentions]
LeaderboardRowsOf(ex) ==
  IF ex = NULL THEN <<>> ELSE Map(ex.leaderboard, LeaderboardRow)
\* explore.samples.map((r, i) => ({ id: i + 1, ...r }))
SampleRow(r, i) == [id |-> i, tweet_id |-> r.tweet_id, entity |-> r.entity,
                    sentiment |-> r.sentiment, text |-> r.text]
SampleRowsOf(ex) == IF ex = NULL THEN <<>> ELSE Map(ex.samples, SampleRow)

SampleMatches_Concat(r, q) ==
  Includes(ToLowerCase(JsString(JsOr(r.text, S(<<>>))))
             \o ToLowerCase(JsString(JsOr(r.entity, S(<<>>))))
             \o ToLowerCase(JsString(JsOr(r.sentiment, S(<<>>))))
             \o ToLowerCase(JsString(JsOr(r.tweet_id, S(<<>>)))), q)
SampleMatches(r, q) ==
  LET t == ToLowerCase(JsString(JsOr(r.text, S(<<>>))))
      e == ToLowerCase(JsString(JsOr(r.entity, S(<<>>))))
      s == ToLowerCase(JsString(JsOr(r.sentiment, S(<<>>))))
      id == ToLowerCase(JsString(JsOr(r.tweet_id, S(<<>>))))
  IN Includes(t, q) \/ Includes(e, q) \/ Includes(s, q) \/ Includes(id, q)

LeaderboardMatches(r, q) ==
  Includes(ToLowerCase(JsString(JsOr(S(r.entity), S(<<>>)))), q)

FilterSampleRows_NoTrim(rows, search) ==
  IF Len(rows) = 0 THEN rows
  ELSE LET q == ToLowerCase(search)
           Keep(r) == SampleMatches(r, q)
       IN IF q = <<>> THEN rows ELSE Filter(rows, Keep)
FilterSampleRows(rows, search) ==
  IF Len(rows) = 0 THEN rows
  ELSE LET q == ToLowerCase(Trim(search))
           Keep(r) == SampleMatches(r, q)
       IN IF q = <<>> THEN rows ELSE Filter(rows, Keep)

FilterLeaderboardRows(rows, search) ==
  IF Len(rows) = 0 THEN rows
  ELSE LET q == ToLowerCase(Trim(search))
           Keep(r) == LeaderboardMatches(r, q)
       IN IF q = <<>> THEN rows ELSE Filter(rows, Keep)

leaderboardRows == LeaderboardRowsOf(explore)
sampleRows == SampleRowsOf(explore)
filteredSampleRows == FilterSampleRows(sampleRows, localSearch)
filteredLeaderboardRows == FilterLeaderboardRows(leaderboardRows, localSearch)

(* ------------------------- batch merge / export ---------------------- *)
\* property read on a parsed row: a missing column reads as undefined
Get(r, k) == IF k \in DOMAIN r THEN r[k] ELSE UNDEFINED
\* array read: an index past the end reads as undefined
At(arr, i) == IF i \in 1..Len(arr) THEN arr[i] ELSE UNDEFINED

HasText_Present(r) == "text" \in DOMAIN r
\* (results.data as any[]).filter((r) => r && r.text)
HasText(r) == Truthy(Get(r, "text"))
SurvivingRows(data) == Filter(data, HasText)

\* rows.map((r) => String(r.text))
TextOf(r, i) == JsString(Get(r, "text"))
TextsOf(rows) == Map(rows, TextOf)

\* { id: i + 1, ...row, predicted_sentiment: sentiments[i] }
MergeRow(row, i, sentiments) ==
  [k \in {"id"} \cup DOMAIN row \cup {"predicted_sentiment"} |->
     IF k = "predicted_sentiment" THEN At(sentiments, i)
     ELSE IF k \in DOMAIN row THEN row[k]
     ELSE N(i)]

MergeRows_Truncated(rows, sentiments) ==
  [i \in 1..(IF Len(rows) < Len(sentiments) THEN Len(rows) ELSE Len(sentiments)) |->
     MergeRow(rows[i], i, sentiments)]
MergeRows(rows, sentiments) ==
  [i \in 1..Len(rows) |-> MergeRow(rows[i], i, sentiments)]

\* ({ id, ...rest }) => rest
Rest(row) == [k \in DOMAIN row \ {"id"} |-> row[k]]

\* Papa.unparse of an array of objects: the fields are the keys of the first
\* object; a null or undefined value is written as the empty string.  The
\* CSV text is kept as its table: the field set and one record per row.
CsvCell(x) == IF x.t \in {"undefined", "null"} THEN <<>> ELSE JsString(x)
Unparse(rows) ==
  IF Len(rows) = 0 THEN [fields |-> {}, records |-> <<>>]
  ELSE LET fields == DOMAIN rows[1]
       IN [fields |-> fields,
           records |-> [i \in 1..Len(rows) |->
                          [k \in fields |-> CsvCell(Get(rows[i], k))]]]

\* Papa.parse(csv, { header: true }): every cell is read back as a string
ParseCsv(csv) ==
  [i \in 1..Len(csv.records) |-> [k \in csv.fields |-> S(csv.records[i][k])]]

ExportOf(rows) == Unparse([i \in 1..Len(rows) |-> Rest(rows[i])])

(* ------------------------------ actions ------------------------------ *)
\* useEffect: api.get("/meta").then((r) => setMeta(r.data))
MetaResolve ==
  /\ metaReq = "pending"
  /\ meta' = META
  /\ metaReq' = "done"
  /\ UNCHANGED <<active, predVars, exploreVars, localSearch, batchVars,
                 download, envVars>>

MetaReject ==
  /\ metaReq = "pending"
  /\ metaReq' = "failed"
  /\ UNCHANGED <<meta, active, predVars, exploreVars, localSearch, batchVars,
                 download, envVars>>

\* DashboardLayout navigation: setActive(k)
SetActive(k) ==
  /\ active # k
  /\ active' = k
  /\ UNCHANGED <<meta, metaReq, predVars, exploreVars, localSearch, batchVars,
                 download, envVars>>

\* Shown without the wait for meta
Shown_NoGate(view) == active = view
\* the views are rendered only once meta is stored
Shown(view) == meta # NULL /\ active = view

SetText(t) ==
  /\ Shown("single")
  /\ text # t
  /\ text' = t
  /\ UNCHANGED <<appVars, pred, predLoading, predReqs, exploreVars,
                 localSearch, batchVars, download, envVars>>

RunPredict_Ungated ==
  /\ Shown("single")
  /\ Trim(text) # <<>>
  /\ pred' = NULL
  /\ predLoading' = TRUE
  /\ predReqs' = Append(predReqs, [text |-> Trim(text)])
  /\ UNCHANGED <<appVars, text, exploreVars, localSearch, batchVars,
                 download, envVars>>
RunPredict_SharedLoading ==
  /\ Shown("single")
  /\ Trim(text) # <<>> /\ ~predLoading
  /\ pred' = NULL
  /\ predLoading' = TRUE
  /\ exploreLoading' = TRUE
  /\ predReqs' = Append(predReqs, [text |-> Trim(text)])
  /\ UNCHANGED <<appVars, text, entity, explore, exploreError, exploreReqs,
                 localSearch, batchVars, download, envVars>>
RunPredict ==
  /\ Shown("single")
  /\ Trim(text) # <<>> /\ ~predLoading        \* button enabled
  /\ pred' = NULL
  /\ predLoading' = TRUE
  /\ predReqs' = Append(predReqs, [text |-> Trim(text)])
  /\ UNCHANGED <<appVars, text, exploreVars, localSearch, batchVars,
                 download, envVars>>

PredictResolve(i, r) ==
  /\ i \in 1..Len(predReqs)
  /\ pred' = r
  /\ predLoading' = FALSE
  /\ predReqs' = RemoveAt(predReqs, i)
  /\ UNCHANGED <<appVars, text, exploreVars, localSearch, batchVars,
                 download, envVars>>

PredictReject(i) ==
  /\ i \in 1..Len(predReqs)
  /\ predLoading' = FALSE
  /\ predReqs' = RemoveAt(predReqs, i)
  /\ UNCHANGED <<appVars, text, pred, exploreVars, localSearch, batchVars,
                 download, envVars>>

SetEntity(e) ==
  /\ Shown("explorer")
  /\ entity # e
  /\ entity' = e
  /\ UNCHANGED <<appVars, predVars, explore, exploreLoading, exploreError,
                 exploreReqs, localSearch, batchVars, download, envVars>>

RunExplore_Ungated ==
  /\ Shown("explorer")
  /\ exploreError' = NULL
  /\ exploreLoading' = TRUE
  /\ exploreReqs' = Append(exploreReqs, [entity |-> entity])
  /\ UNCHANGED <<appVars, predVars, entity, explore, localSearch, batchVars,
                 download, envVars>>
\* RunExplore dropping the stored result when the request is issued
RunExplore_ClearsResult ==
  /\ Shown("explorer")
  /\ ~exploreLoading
  /\ explore' = NULL
  /\ exploreError' = NULL
  /\ exploreLoading' = TRUE
  /\ exploreReqs' = Append(exploreReqs, [entity |-> entity])
  /\ UNCHANGED <<appVars, predVars, entity, localSearch, batchVars,
                 download, envVars>>
\* RunExplore leaving the message of the last failure in place
RunExplore_KeepsError ==
  /\ Shown("explorer")
  /\ ~exploreLoading
  /\ exploreLoading' = TRUE
  /\ exploreReqs' = Append(exploreReqs, [entity |-> entity])
  /\ UNCHANGED <<appVars, predVars, entity, explore, exploreError, localSearch,
                 batchVars, download, envVars>>
RunExplore ==
  /\ Shown("explorer")
  /\ ~exploreLoading                           \* button enabled
  /\ exploreError' = NULL
  /\ exploreLoading' = TRUE
  /\ exploreReqs' = Append(exploreReqs, [entity |-> entity])
  /\ UNCHANGED <<appVars, predVars, entity, explore, localSearch, batchVars,
                 download, envVars>>

\* ExploreResolve appending the response to the stored result
ExploreResolve_Merge(i) ==
  /\ i \in 1..Len(exploreReqs)
  /\ explore' = IF explore = NULL THEN srvExplore
                ELSE [distribution |-> explore.distribution \o srvExplore.distribution,
                      mix |-> explore.mix \o srvExplore.mix,
                      leaderboard |-> explore.leaderboard \o srvExplore.leaderboard,
                      samples |-> explore.samples \o srvExplore.samples]
  /\ exploreLoading' = FALSE
  /\ exploreReqs' = RemoveAt(exploreReqs, i)
  /\ UNCHANGED <<appVars, predVars, entity, exploreError, localSearch,
                 batchVars, download, envVars>>

ExploreResolve(i) ==
  /\ i \in 1..Len(exploreReqs)
  /\ explore' = srvExplore
  /\ exploreLoading' = FALSE
  /\ exploreReqs' = RemoveAt(exploreReqs, i)
  /\ UNCHANGED <<appVars, predVars, entity, exploreError, localSearch,
                 batchVars, download, envVars>>

DefaultExploreError == "Failed to load explorer analytics."
ExploreReject_NoDefault(i, msg) ==
  /\ i \in 1..Len(exploreReqs)
  /\ exploreError' = S(msg)
  /\ exploreLoading' = FALSE
  /\ exploreReqs' = RemoveAt(exploreReqs, i)
  /\ UNCHANGED <<appVars, predVars, entity, explore, localSearch, batchVars,
                 download, envVars>>
\* msg is e?.message, "" when the error carries none
ExploreReject(i, msg) ==
  /\ i \in 1..Len(exploreReqs)
  /\ exploreError' = S(IF msg # "" THEN msg ELSE DefaultExploreError)
  /\ exploreLoading' = FALSE
  /\ exploreReqs' = RemoveAt(exploreReqs, i)
  /\ UNCHANGED <<appVars, predVars, entity, explore, localSearch, batchVars,
                 download, envVars>>

SetLocalSearch_Refetch(q) ==
  /\ Shown("explorer")
  /\ localSearch # q
  /\ localSearch' = q
  /\ exploreLoading' = TRUE
  /\ exploreReqs' = Append(exploreReqs, [entity |-> entity])
  /\ UNCHANGED <<appVars, predVars, entity, explore, exploreError, batchVars,
                 download, envVars>>
SetLocalSearch(q) ==
  /\ Shown("explorer")
  /\ localSearch # q
  /\ localSearch' = q
  /\ UNCHANGED <<appVars, predVars, exploreVars, batchVars, download, envVars>>

OnBatchFile_NoClear ==
  /\ Shown("batch")
  /\ ~batchLoading
  /\ batchFilename' = file.name
  /\ batchLoading' = TRUE
  /\ batchJobs' = Append(batchJobs, [stage |-> "parsing", file |-> file])
  /\ UNCHANGED <<appVars, predVars, exploreVars, localSearch, batchPredRows,
                 download, envVars>>
\* <input type="file" onChange>: onBatchFile(f) up to the call of Papa.parse
OnBatchFile ==
  /\ Shown("batch")
  /\ ~batchLoading                             \* button enabled
  /\ batchPredRows' = <<>>
  /\ batchFilename' = file.name
  /\ batchLoading' = TRUE
  /\ batchJobs' = Append(batchJobs, [stage |-> "parsing", file |-> file])
  /\ UNCHANGED <<appVars, predVars, exploreVars, localSearch, download, envVars>>

\* Papa.parse complete callback up to the await of api.post
ParseComplete(j) ==
  /\ j \in 1..Len(batchJobs)
  /\ batchJobs[j].stage = "parsing"
  /\ batchJobs[j].file.ok
  /\ LET rows == SurvivingRows(batchJobs[j].file.data)
     IN batchJobs' = [batchJobs EXCEPT ![j] =
                        [stage |-> "posted", file |-> batchJobs[j].file,
                         rows |-> rows, texts |-> TextsOf(rows)]]
  /\ UNCHANGED <<appVars, predVars, exploreVars, localSearch, batchPredRows,
                 batchLoading, batchFilename, download, envVars>>

ParseError_KeepsLoading(j) ==
  /\ j \in 1..Len(batchJobs)
  /\ batchJobs[j].stage = "parsing"
  /\ ~batchJobs[j].file.ok
  /\ batchJobs' = RemoveAt(batchJobs, j)
  /\ UNCHANGED <<appVars, predVars, exploreVars, localSearch, batchPredRows,
                 batchLoading, batchFilename, download, envVars>>
\* Papa.parse error callback
ParseError(j) ==
  /\ j \in 1..Len(batchJobs)
  /\ batchJobs[j].stage = "parsing"
  /\ ~batchJobs[j].file.ok
  /\ batchLoading' = FALSE
  /\ batchJobs' = RemoveAt(batchJobs, j)
  /\ UNCHANGED <<appVars, predVars, exploreVars, localSearch, batchPredRows,
                 batchFilename, download, envVars>>

\* the /batch_predict response arrives: merge, store, finally
BatchResolve(j) ==
  /\ j \in 1..Len(batchJobs)
  /\ batchJobs[j].stage = "posted"
  /\ batchPredRows' = MergeRows(batchJobs[j].rows, srvSentiments)
  /\ batchLoading' = FALSE
  /\ batchJobs' = RemoveAt(batchJobs, j)
  /\ UNCHANGED <<appVars, predVars, exploreVars, localSearch, batchFilename,
                 download, envVars>>

BatchReject(j) ==
  /\ j \in 1..Len(batchJobs)
  /\ batchJobs[j].stage = "posted"
  /\ batchLoading' = FALSE
  /\ batchJobs' = RemoveAt(batchJobs, j)
  /\ UNCHANGED <<appVars, predVars, exploreVars, localSearch, batchPredRows,
                 batchFilename, download, envVars>>

DownloadCSV ==
  /\ Shown("batch")
  /\ Len(batchPredRows) > 0                    \* button rendered
  /\ download' = [name |-> "tweet_sentiment_predictions.csv",
                  csv |-> ExportOf(batchPredRows)]
  /\ UNCHANGED <<appVars, predVars, exploreVars, localSearch, batchVars, envVars>>

(* ------------------------------ inputs ------------------------------- *)
SeqsUpTo(set, n) == UNION {[1..k -> set] : k \in 0..n}

LOWERPOSITIVE == ToLowerCase(POSITIVE)     \* a string the code does not recognise
EntityA == <<"A">>
EntityB == <<"b">>

MixEntries == [entity : {EntityA, EntityB},
               sentiment : {POSITIVE, NEGATIVE, NEUTRAL, LOWERPOSITIVE},
               count : 0..MaxCount]
Mixes == SeqsUpTo(MixEntries, MaxMixLen)
\* the complete entity x sentiment matrices over one and over two entities
MatrixRows(e, c) ==
  <<[entity |-> e, sentiment |-> NEGATIVE, count |-> c[1]],
    [entity |-> e, sentiment |-> NEUTRAL, count |-> c[2]],
    [entity |-> e, sentiment |-> POSITIVE, count |-> c[3]]>>
MatrixMixes ==
  LET Triples == [1..3 -> 0..MaxCount]
  IN {MatrixRows(EntityA, c) : c \in Triples}
       \cup {MatrixRows(EntityA, c) \o MatrixRows(EntityB, d) :
               c \in Triples, d \in Triples}

DistEntries == [sentiment : {POSITIVE, NEGATIVE, NEUTRAL, LOWERPOSITIVE},
                count : 0..MaxCount]
ScenarioDist == <<[sentiment |-> POSITIVE, count |-> 60],
                  [sentiment |-> NEGATIVE, count |-> 20],
                  [sentiment |-> NEUTRAL, count |-> 20]>>
FullDists ==
  {<<[sentiment |-> NEUTRAL, count |-> c[1]],
     [sentiment |-> POSITIVE, count |-> c[2]],
     [sentiment |-> NEGATIVE, count |-> c[3]]>> : c \in [1..3 -> 0..MaxCount]}
Dists == SeqsUpTo(DistEntries, MaxDistLen) \cup FullDists \cup {ScenarioDist}

\* mixes of n entities e1..en, a Positive and a Negative row each, whose
\* counts follow a pattern:
\*  1: volume falls with i, the last entity has one Positive mention only
\*  2: volume falls with i, the last entity has one Negative mention only
\*  3: volume grows with i, the first entity has one Positive mention only
\*  4: counts vary irregularly    5: all counts are 0
RankPatterns == 1..5
RankEntity(i) == <<"e">> \o NumToString(i)
RankCounts(p, i, n) ==
  CASE p = 1 -> IF i = n THEN [pos |-> 1, neg |-> 0]
                ELSE [pos |-> n - i + 1, neg |-> n - i + (i % 2)]
    [] p = 2 -> IF i = n THEN [pos |-> 0, neg |-> 1]
                ELSE [pos |-> n - i + 1, neg |-> n - i + 2]
    [] p = 3 -> IF i = 1 THEN [pos |-> 1, neg |-> 0]
                ELSE [pos |-> i, neg |-> i + (i % 2)]
    [] p = 4 -> [pos |-> (i * 3) % 5, neg |-> (i * 2) % 3]
    [] OTHER -> [pos |-> 0, neg |-> 0]
RankMix(p, n) ==
  [k \in 1..(2 * n) |->
     LET i == ((k - 1) \div 2) + 1
         c == RankCounts(p, i, n)
     IN [entity |-> RankEntity(i),
         sentiment |-> IF k % 2 = 1 THEN POSITIVE ELSE NEGATIVE,
         count |-> IF k % 2 = 1 THEN c.pos ELSE c.neg]]
RankMixes == {RankMix(p, n) : p \in RankPatterns, n \in 0..MaxRankEntities}

\* the mix of the single-row scenario
ScenarioMix == <<[entity |-> EntityA, sentiment |-> POSITIVE, count |-> 5]>>
\* leaderboards of n entities in three orders of mentions: falling, rising,
\* and mixed with ties
RankBoard(p, n) ==
  [i \in 1..n |->
     [entity |-> RankEntity(i),
      mentions |-> CASE p = 1 -> n - i + 1
                     [] p = 2 -> i
                     [] OTHER -> (i * 3) % 5]]
RankBoards == {RankBoard(p, n) : p \in 1..3, n \in 0..MaxRankEntities}

AggResponses ==
  {[EmptyResponse EXCEPT !.mix = m] :
     m \in Mixes \cup MatrixMixes \cup RankMixes \cup {ScenarioMix}}
    \cup {[EmptyResponse EXCEPT !.distribution = d] : d \in Dists}
    \cup {[EmptyResponse EXCEPT !.leaderboard = b] : b \in RankBoards}

\* rows and queries of the local filter
QueryChars == {"a", "B", "0", " "}
Queries == SeqsUpTo(QueryChars, MaxQueryLen)
SampleInputs ==
  {[tweet_id |-> id, entity |-> S(r[1]), sentiment |-> S(r[2]), text |-> S(r[3])] :
     id \in {N(0), N(10), S(<<"a">>)},
     r \in {<<EntityA, POSITIVE, <<>> >>, <<EntityB, NEGATIVE, <<"a","B">> >>}}
LeaderboardInputs ==
  {[entity |-> EntityA, mentions |-> 2], [entity |-> EntityB, mentions |-> 1],
   [entity |-> <<>>, mentions |-> 0]}
FilterResponses ==
  {[EmptyResponse EXCEPT !.samples = ss] : ss \in SeqsUpTo(SampleInputs, MaxSamples)}
    \cup {[EmptyResponse EXCEPT !.leaderboard = lb] :
            lb \in SeqsUpTo(LeaderboardInputs, MaxSamples)}

\* uploaded CSV files as Papa.parse reads them with header: true
Headers == {{"text"}, {"id", "text"}, {"text", "predicted_sentiment"}, {"id"}}
CellsOf(column) ==
  CASE column = "text" -> {S(<<>>), S(<<"h","i">>), S(<<"y","o">>)}
    [] column = "id" -> {S(<<>>), S(<<"7">>)}
    [] OTHER -> {S(NEUTRAL)}
RowsOver(h) == {r \in [h -> UNION {CellsOf(k) : k \in h}] :
                  \A k \in h : r[k] \in CellsOf(k)}
\* a line with too few fields lacks the trailing columns
RowsOf(h) == RowsOver(h) \cup (IF h = {"id", "text"} THEN RowsOver({"id"}) ELSE {})
Files ==
  {[name |-> "tweets.csv", ok |-> TRUE, data |-> d] :
      d \in UNION {SeqsUpTo(RowsOf(h), MaxFileRows) : h \in Headers}}
    \cup {[name |-> "broken.csv", ok |-> FALSE, data |-> <<>>]}
LabelArrays == SeqsUpTo({S(POSITIVE), S(NEGATIVE)}, MaxLabels)

(* --------------------------- specifications -------------------------- *)
\* the state right after the first render
InitApp ==
  /\ meta = NULL /\ metaReq = "pending" /\ active = "single"
  /\ text = <<>> /\ pred = NULL /\ predLoading = FALSE /\ predReqs = <<>>
  /\ entity = "All" /\ explore = NULL /\ exploreLoading = FALSE
  /\ exploreError = NULL /\ exploreReqs = <<>> /\ localSearch = <<>>
  /\ batchPredRows = <<>> /\ batchLoading = FALSE /\ batchFilename = ""
  /\ batchJobs = <<>> /\ download = NULL

\* the state after /meta has answered and the user has opened a view
InitView(view) ==
  /\ meta = META /\ metaReq = "done" /\ active = view
  /\ text = <<>> /\ pred = NULL /\ predLoading = FALSE /\ predReqs = <<>>
  /\ entity = "All" /\ explore = NULL /\ exploreLoading = FALSE
  /\ exploreError = NULL /\ exploreReqs = <<>> /\ localSearch = <<>>
  /\ batchPredRows = <<>> /\ batchLoading = FALSE /\ batchFilename = ""
  /\ batchJobs = <<>> /\ download = NULL

\* Aggregator: the explorer is run against every response of AggResponses
InitAgg ==
  /\ InitView("explorer")
  /\ srvExplore \in AggResponses
  /\ srvSentiments = <<>> /\ file = NoFile
NextAgg ==
  \/ RunExplore
  \/ \E i \in 1..Len(exploreReqs) : ExploreResolve(i)
SpecAgg == InitAgg /\ [][NextAgg]_vars

\* RowFilter: every query is typed against every response of FilterResponses
InitFilter ==
  /\ InitView("explorer")
  /\ srvExplore \in FilterResponses
  /\ srvSentiments = <<>> /\ file = NoFile
NextFilter ==
  \/ RunExplore
  \/ \E i \in 1..Len(exploreReqs) : ExploreResolve(i)
  \/ \E q \in Queries : SetLocalSearch(q)
SpecFilter == InitFilter /\ [][NextFilter]_vars

\* BatchMerger / CsvExporter: every file is uploaded against every label array
InitBatch ==
  /\ InitView("batch")
  /\ srvExplore = EmptyResponse
  /\ srvSentiments \in LabelArrays /\ file \in Files
NextBatch ==
  \/ OnBatchFile
  \/ \E j \in 1..Len(batchJobs) : ParseComplete(j)
  \/ \E j \in 1..Len(batchJobs) : ParseError(j)
  \/ \E j \in 1..Len(batchJobs) : BatchResolve(j)
  \/ \E j \in 1..Len(batchJobs) : BatchReject(j)
  \/ DownloadCSV
SpecBatch == InitBatch /\ [][NextBatch]_vars

\* The whole application: the three flows, navigation and the /meta request.
\* The server's answers and the file the user picks next belong to the
\* environment and may change at any time.
Views == {"single", "explorer", "batch"}
AppTexts == {<<>>, <<" ">>, <<"h","i">>}
AppEntities == {"All", "A"}
AppPredictions ==
  {[sentiment |-> POSITIVE, classes |-> NULL, probabilities |-> NULL]}
AppMessages == {"", "Network Error"}
AppResponses ==
  {EmptyResponse,
   [EmptyResponse EXCEPT
      !.mix = <<[entity |-> EntityA, sentiment |-> POSITIVE, count |-> 1]>>]}
AppLabels == {<<>>, <<S(POSITIVE), S(NEGATIVE)>>}
AppFiles ==
  {[name |-> "one.csv", ok |-> TRUE,
    data |-> <<[text |-> S(<<"h","i">>)], [text |-> S(<<>>)]>>],
   [name |-> "two.csv", ok |-> TRUE,
    data |-> <<[text |-> S(<<"y","o">>)], [text |-> S(<<"h","i">>)]>>],
   [name |-> "broken.csv", ok |-> FALSE, data |-> <<>>]}

Environment ==
  /\ srvExplore' \in AppResponses
  /\ srvSentiments' \in AppLabels
  /\ file' \in AppFiles
  /\ envVars' # envVars
  /\ UNCHANGED <<appVars, predVars, exploreVars, localSearch, batchVars, download>>

Init ==
  /\ InitApp
  /\ srvExplore \in AppResponses
  /\ srvSentiments \in AppLabels
  /\ file \in AppFiles
Next ==
  \/ MetaResolve
  \/ MetaReject
  \/ \E k \in Views : SetActive(k)
  \/ \E t \in AppTexts : SetText(t)
  \/ RunPredict
  \/ \E i \in 1..Len(predReqs), r \in AppPredictions : PredictResolve(i, r)
  \/ \E i \in 1..Len(predReqs) : PredictReject(i)
  \/ \E e \in AppEntities : SetEntity(e)
  \/ RunExplore
  \/ \E i \in 1..Len(exploreReqs) : ExploreResolve(i)
  \/ \E i \in 1..Len(exploreReqs), msg \in AppMessages : ExploreReject(i, msg)
  \/ OnBatchFile
  \/ \E j \in 1..Len(batchJobs) : ParseComplete(j)
  \/ \E j \in 1..Len(batchJobs) : ParseError(j)
  \/ \E j \in 1..Len(batchJobs) : BatchResolve(j)
  \/ \E j \in 1..Len(batchJobs) : BatchReject(j)
  \/ Environment
Spec == Init /\ [][Next]_vars

\* Replacement: the explorer is run again and again while the server's answer
\* changes between the requests
ReplaceResponses ==
  {[distribution |-> d, mix |-> m, leaderboard |-> b, samples |-> ss] :
     d \in {<<>>, <<[sentiment |-> POSITIVE, count |-> 2]>>,
            <<[sentiment |-> NEGATIVE, count |-> 1]>>},
     m \in {<<>>, <<[entity |-> EntityA, sentiment |-> POSITIVE, count |-> 1]>>,
            <<[entity |-> EntityB, sentiment |-> NEGATIVE, count |-> 2],
              [entity |-> EntityB, sentiment |-> NEUTRAL, count |-> 1]>>},
     b \in {<<>>, <<[entity |-> EntityA, mentions |-> 2]>>,
            <<[entity |-> EntityB, mentions |-> 3]>>},
     ss \in {<<>>,
             <<[tweet_id |-> N(10), entity |-> S(EntityA), sentiment |-> S(POSITIVE),
                text |-> S(<<"h","i">>)]>>}}
\* the server's data changes between two requests
NewAnswer ==
  /\ srvExplore' \in ReplaceResponses
  /\ srvExplore' # srvExplore
  /\ UNCHANGED <<appVars, predVars, exploreVars, localSearch, batchVars, download,
                 srvSentiments, file>>
InitReplace ==
  /\ InitView("explorer")
  /\ srvExplore \in ReplaceResponses
  /\ srvSentiments = <<>> /\ file = NoFile
NextReplace ==
  \/ RunExplore
  \/ \E i \in 1..Len(exploreReqs) : ExploreResolve(i)
  \/ \E i \in 1..Len(exploreReqs), msg \in AppMessages : ExploreReject(i, msg)
  \/ NewAnswer
SpecReplace == InitReplace /\ [][NextReplace]_vars

(* ------------------------ Aggregator properties ---------------------- *)
MixOf(ex) == IF ex = NULL THEN <<>> ELSE ex.mix
EntitiesOf(mix) == {mix[i].entity : i \in 1..Len(mix)}
Classes == {POSITIVE, NEGATIVE, NEUTRAL}
Min(a, b) == IF a < b THEN a ELSE b
Max(a, b) == IF a > b THEN a ELSE b

\* every (entity, sentiment) pair at most once, every sentiment a class
WellFormedMix(mix) ==
  /\ \A i \in 1..Len(mix) : mix[i].sentiment \in Classes
  /\ \A i, j \in 1..Len(mix) :
       (mix[i].entity = mix[j].entity /\ mix[i].sentiment = mix[j].sentiment)
         => i = j

\* sum of the count fields of the rows that satisfy P
RECURSIVE SumRange(_, _, _)
SumRange(nums, lo, hi) ==
  IF lo > hi THEN 0
  ELSE IF lo = hi THEN nums[lo]
  ELSE SumRange(nums, lo, (lo + hi) \div 2)
         + SumRange(nums, ((lo + hi) \div 2) + 1, hi)
SumCounts(rows, P(_)) ==
  LET nums == [i \in 1..Len(rows) |-> IF P(rows[i]) THEN rows[i].count ELSE 0]
  IN SumRange(nums, 1, Len(rows))
CountsOfEntity(mix, e) == LET P(m) == m.entity = e IN SumCounts(mix, P)
CountsOfCell(mix, e, c) ==
  LET P(m) == m.entity = e /\ m.sentiment = c IN SumCounts(mix, P)
CountsOfClass(dist, c) == LET P(d) == d.sentiment = c IN SumCounts(dist, P)

\* C1: every EntityScore has score = (pos - neg) / total with total >= 1 and
\* -1 <= score <= 1; an entity whose pos, neg and neu are all 0 has total 1
\* and score 0.
C1_ScoreInRange ==
  LET es == entityScores
  IN \A j \in 1..Len(es) :
       LET x == es[j]
       IN /\ x.score.num = x.pos - x.neg
          /\ x.score.den = x.total
          /\ x.total >= 1
          /\ -x.score.den <= x.score.num /\ x.score.num <= x.score.den
          /\ (x.pos = 0 /\ x.neg = 0 /\ x.neu = 0)
               => (x.total = 1 /\ x.score.num = 0)

C1_Witness ==
  LET es == entityScores
  IN /\ \E j \in 1..Len(es) :
          es[j].pos = 0 /\ es[j].neg = 0 /\ es[j].neu = 0 /\ es[j].total = 1
     /\ \E j \in 1..Len(es) : es[j].score.num = -es[j].score.den

\* C6: for a mix in which every (entity, sentiment) pair appears at most once
\* and every sentiment is a class, pos, neg and neu of an entity are the
\* counts of its Positive, Negative and Neutral rows (0 when absent), and
\* total is their sum when that is positive and 1 otherwise.
C6_CountsPerClass ==
  (explore # NULL /\ WellFormedMix(explore.mix)) =>
    LET es == entityScores
        mix == explore.mix
    IN \A e \in EntitiesOf(mix) :
         \E j \in 1..Len(es) :
           LET x == es[j]
           IN /\ x.entity = e
              /\ x.pos = CountsOfCell(mix, e, POSITIVE)
              /\ x.neg = CountsOfCell(mix, e, NEGATIVE)
              /\ x.neu = CountsOfCell(mix, e, NEUTRAL)
              /\ x.total = (IF x.pos + x.neg + x.neu > 0
                            THEN x.pos + x.neg + x.neu ELSE 1)

C6_Witness ==
  /\ explore # NULL /\ WellFormedMix(explore.mix)
  /\ LET es == entityScores
     IN /\ Len(es) = 2
        /\ es[1].pos = 1 /\ es[1].neg = 2 /\ es[1].neu = 0 /\ es[1].total = 3
        /\ es[2].pos = 0 /\ es[2].neg = 0 /\ es[2].neu = 0 /\ es[2].total = 1

\* C7 as stated: pos + neg + total of an entity equals the sum of the count
\* fields of all rows of that entity.
C7_Original ==
  LET es == entityScores
      mix == MixOf(explore)
  IN \A j \in 1..Len(es) :
       es[j].pos + es[j].neg + es[j].total = CountsOfEntity(mix, es[j].entity)

\* C7 amended: for a mix in which every (entity, sentiment) pair appears at
\* most once and every sentiment is a class, pos + neg + neu of an entity
\* equals the sum of the count fields of all rows of that entity.
C7_SumOfCounts ==
  (explore # NULL /\ WellFormedMix(explore.mix)) =>
    LET es == entityScores
        mix == explore.mix
    IN \A j \in 1..Len(es) :
         es[j].pos + es[j].neg + es[j].neu = CountsOfEntity(mix, es[j].entity)

C7_Witness ==
  /\ explore # NULL /\ WellFormedMix(explore.mix)
  /\ LET es == entityScores
     IN \E j \in 1..Len(es) :
          /\ es[j].pos > 0 /\ es[j].neg > 0 /\ es[j].neu > 0
          /\ CountsOfEntity(explore.mix, es[j].entity)
               = es[j].pos + es[j].neg + es[j].neu

\* C8: entityScores has exactly one element per distinct entity of mix, an
\* entity whose rows all carry an unrecognised sentiment has pos = neg =
\* neu = 0, and the list is ordered by total, non-increasing.
C8_OnePerEntitySorted ==
  LET mix == MixOf(explore)
      es == entityScores
      ents == EntitiesOf(mix)
  IN /\ {es[j].entity : j \in 1..Len(es)} = ents
     /\ Len(es) = Cardinality(ents)
     /\ \A j \in 1..Len(es) :
          (\A i \in 1..Len(mix) :
             mix[i].entity = es[j].entity => mix[i].sentiment \notin Classes)
            => (es[j].pos = 0 /\ es[j].neg = 0 /\ es[j].neu = 0)
     /\ \A j \in 1..(Len(es) - 1) : es[j].total >= es[j + 1].total

C8_Witness ==
  /\ explore # NULL /\ Len(explore.mix) = 2
  /\ explore.mix[1].sentiment = LOWERPOSITIVE /\ explore.mix[1].count = 2
  /\ explore.mix[2].entity # explore.mix[1].entity
  /\ explore.mix[2].sentiment = POSITIVE /\ explore.mix[2].count = 2
  /\ LET es == entityScores
     IN /\ Len(es) = 2
        /\ es[1].entity = explore.mix[2].entity /\ es[1].total = 2
        /\ es[2].entity = explore.mix[1].entity /\ es[2].total = 1
        /\ es[2].pos = 0 /\ es[2].neg = 0 /\ es[2].neu = 0

\* C9: sentimentIndex = (pos - neg) / max(1, neg + neu + pos) over the counts
\* of the distribution entries named exactly Positive, Negative, Neutral (0
\* for an omitted class); it lies in [-1, 1] and the gauge value in [0, 100];
\* Positive 60, Negative 20, Neutral 20 gives 0.4; without an explore result
\* the index is 0.
C9_SentimentIndex ==
  LET idx == sentimentIndex
      gauge == GaugeValue(idx)
  IN /\ explore = NULL => idx.num = 0
     /\ (explore # NULL
           /\ \A c \in Classes :
                Cardinality({i \in 1..Len(explore.distribution) :
                               explore.distribution[i].sentiment = c}) <= 1)
          => LET pos == CountsOfClass(explore.distribution, POSITIVE)
                 neg == CountsOfClass(explore.distribution, NEGATIVE)
                 neu == CountsOfClass(explore.distribution, NEUTRAL)
             IN /\ idx.num = pos - neg
                /\ idx.den = Max(1, neg + neu + pos)
     /\ idx.den > 0
     /\ -idx.den <= idx.num /\ idx.num <= idx.den
     /\ gauge.den > 0
     /\ 0 <= gauge.num /\ gauge.num <= 100 * gauge.den
     /\ (explore # NULL /\ explore.distribution = ScenarioDist)
          => idx.num * 10 = 4 * idx.den

C9_Witness ==
  /\ explore # NULL /\ explore.distribution = ScenarioDist
  /\ sentimentIndex.num = 40 /\ sentimentIndex.den = 100

\* C2: topPositive and topNegative each hold min(8, number of distinct
\* entities) elements, all of them among the first 20 elements of
\* entityScores, which are the 20 largest by total; topPositive is ordered by
\* score non-increasing and topNegative non-decreasing; an entity ranked
\* after position 20 appears in neither list.
C2_TopLists ==
  LET es == entityScores
      tp == topPositiveEntities
      tn == topNegativeEntities
      head == {es[j] : j \in 1..Min(TopVolume, Len(es))}
      late == {es[j].entity : j \in (TopVolume + 1)..Len(es)}
      want == Min(TopShown, Cardinality(EntitiesOf(MixOf(explore))))
  IN /\ Len(tp) = want /\ Len(tn) = want
     /\ \A i \in 1..Len(tp) : tp[i] \in head /\ tp[i].entity \notin late
     /\ \A i \in 1..Len(tn) : tn[i] \in head /\ tn[i].entity \notin late
     /\ \A i, j \in 1..Len(tp) : i # j => tp[i].entity # tp[j].entity
     /\ \A i, j \in 1..Len(tn) : i # j => tn[i].entity # tn[j].entity
     /\ \A x \in head : \A j \in (TopVolume + 1)..Len(es) : x.total >= es[j].total
     /\ \A i \in 1..(Len(tp) - 1) : ~RatLess(tp[i].score, tp[i + 1].score)
     /\ \A i \in 1..(Len(tn) - 1) : ~RatLess(tn[i + 1].score, tn[i].score)

\* more than 20 entities, and the entity ranked last by total has a score
\* above that of every entity of topPositive
C2_Witness ==
  LET es == entityScores
      tp == topPositiveEntities
  IN /\ Len(es) > TopVolume
     /\ Len(tp) = TopShown
     /\ \A i \in 1..Len(tp) : RatLess(tp[i].score, es[Len(es)].score)
     /\ \A i \in 1..Len(tp) : tp[i].entity # es[Len(es)].entity

(* ------------------------ RowFilter properties ----------------------- *)
Range(seq) == {seq[i] : i \in 1..Len(seq)}
\* q occurs in s as a contiguous run of characters
Contains(s, q) ==
  \E i \in 0..(Len(s) - Len(q)) : SubSeq(s, i + 1, i + Len(q)) = q
Lowered(x) == ToLowerCase(JsString(x))

\* C4 as stated: for a query q that is non-empty after trimming, a sample row
\* is returned iff lowercase(q) is a substring of its lowercased text, entity,
\* sentiment or tweet_id rendered as a string, falsy tweet_id values such as
\* the number 0 included; a leaderboard row is returned iff lowercase(q) is a
\* substring of its lowercased entity
C4_Original ==
  LET q == ToLowerCase(Trim(localSearch))
  IN q # <<>> =>
       /\ \A r \in Range(sampleRows) :
            (r \in Range(filteredSampleRows)) <=>
              \/ Contains(Lowered(r.text), q)
              \/ Contains(Lowered(r.entity), q)
              \/ Contains(Lowered(r.sentiment), q)
              \/ Contains(Lowered(r.tweet_id), q)
       /\ \A r \in Range(leaderboardRows) :
            (r \in Range(filteredLeaderboardRows)) <=>
              Contains(ToLowerCase(r.entity), q)

\* C13: when the local search string is empty or only whitespace, the
\* filtered sample rows are the sample rows and the filtered leaderboard rows
\* are the leaderboard rows: same rows, same order
C13_BlankQueryIdentity ==
  (\A k \in 1..Len(localSearch) : localSearch[k] \in WhiteSpace) =>
    /\ filteredSampleRows = sampleRows
    /\ filteredLeaderboardRows = leaderboardRows
\* two fetched sample rows under a query of one blank
C13_Witness ==
  /\ localSearch = <<" ">>
  /\ Len(sampleRows) = 2 /\ sampleRows[1].tweet_id # sampleRows[2].tweet_id
  /\ filteredSampleRows = sampleRows

\* the identifier as the filter renders it: a falsy one as the empty string
IdText(r) ==
  IF r.tweet_id \in {N(0), S(<<>>), NULL, UNDEFINED} THEN <<>>
  ELSE Lowered(r.tweet_id)
Concatenation(r) ==
  Lowered(r.text) \o Lowered(r.entity) \o Lowered(r.sentiment) \o IdText(r)

\* C14 as stated: a sample row is returned whenever the lowercased query is
\* contained in the concatenation of its text, entity, sentiment and
\* identifier, also when the query spans the boundary of two adjacent fields
C14_Original ==
  LET q == ToLowerCase(Trim(localSearch))
  IN q # <<>> =>
       \A r \in Range(sampleRows) :
         Contains(Concatenation(r), q) => r \in Range(filteredSampleRows)

\* C14: a sample row is returned exactly when the lowercased query is
\* contained in one single field among its lowercased text, entity, sentiment
\* and identifier (a falsy identifier compared as the empty string); a query
\* contained in the concatenation only across a field boundary does not
\* return the row
C14_PerField ==
  LET q == ToLowerCase(Trim(localSearch))
  IN q # <<>> =>
       \A r \in Range(sampleRows) :
         (r \in Range(filteredSampleRows)) <=>
           \/ Contains(Lowered(r.text), q)
           \/ Contains(Lowered(r.entity), q)
           \/ Contains(Lowered(r.sentiment), q)
           \/ Contains(IdText(r), q)
\* the query "bb" lies across the end of the text "aB" and the entity "b"
C14_Witness ==
  /\ ToLowerCase(Trim(localSearch)) = <<"b", "b">>
  /\ Len(sampleRows) = 1
  /\ Contains(Concatenation(sampleRows[1]), <<"b", "b">>)
  /\ filteredSampleRows = <<>>

\* rows is obtained from all by leaving rows out: ids are the 1-based
\* positions in all
IsSubsequence(rows, all) ==
  /\ \A k \in 1..Len(rows) :
       rows[k].id \in 1..Len(all) /\ rows[k] = all[rows[k].id]
  /\ \A k \in 1..(Len(rows) - 1) : rows[k].id < rows[k + 1].id

\* C15: changing the local search term issues no request and leaves the
\* fetched explore result, the unfiltered row arrays, exploreLoading and
\* exploreError unchanged; the two filtered views are always subsequences of
\* the rows of the stored explore result
C15_SearchIsLocal ==
  /\ [][localSearch' # localSearch =>
          /\ UNCHANGED <<explore, exploreLoading, exploreError>>
          /\ UNCHANGED <<predReqs, exploreReqs, batchJobs>>
          /\ sampleRows' = sampleRows /\ leaderboardRows' = leaderboardRows]_vars
  /\ [](/\ IsSubsequence(filteredSampleRows, sampleRows)
        /\ IsSubsequence(filteredLeaderboardRows, leaderboardRows))
\* a search that keeps the second of two fetched rows only
C15_Witness ==
  /\ localSearch # <<>> /\ exploreReqs = <<>>
  /\ Len(sampleRows) = 2
  /\ filteredSampleRows = <<sampleRows[2]>>

(* --------------------- BatchMerger / CsvExporter --------------------- *)
\* the parsed rows whose text is present and not the empty string
NonEmptyText(r) ==
  "text" \in DOMAIN r /\ r["text"].t = "str" /\ r["text"].v # <<>>
KeptIdx(data) == {i \in 1..Len(data) : NonEmptyText(data[i])}
Nth(I, k) == CHOOSE i \in I : Cardinality({j \in I : j < i}) = k - 1
Kept(data, k) == data[Nth(KeptIdx(data), k)]
Resolved == \E j \in 1..Len(batchJobs) : BatchResolve(j)

\* C3 as stated: after a successful batch prediction the merged row set is as
\* long as the list of uploaded rows with non-empty text, whatever the length
\* of the label array, and merged row i carries the fields of the i-th
\* surviving row plus predicted_sentiment = labels[i]
C3_Original ==
  [][Resolved =>
       /\ Len(batchPredRows') = Cardinality(KeptIdx(file.data))
       /\ \A i \in 1..Len(batchPredRows') :
            /\ \A k \in DOMAIN Kept(file.data, i) :
                 /\ k \in DOMAIN batchPredRows'[i]
                 /\ batchPredRows'[i][k] = Kept(file.data, i)[k]
            /\ "predicted_sentiment" \in DOMAIN batchPredRows'[i]
            /\ batchPredRows'[i]["predicted_sentiment"] = At(srvSentiments, i)]_vars

\* C3: after a successful batch prediction the merged row set is as long as
\* the list of uploaded rows with non-empty text, whatever the length of the
\* label array; merged row i has predicted_sentiment = labels[i] (undefined
\* past the end of the label array) and carries every field of the i-th
\* surviving row other than an uploaded predicted_sentiment, whose value the
\* label replaces
C3_MergedAligned ==
  [][Resolved =>
       /\ Len(batchPredRows') = Cardinality(KeptIdx(file.data))
       /\ \A i \in 1..Len(batchPredRows') :
            /\ \A k \in DOMAIN Kept(file.data, i) \ {"predicted_sentiment"} :
                 /\ k \in DOMAIN batchPredRows'[i]
                 /\ batchPredRows'[i][k] = Kept(file.data, i)[k]
            /\ "predicted_sentiment" \in DOMAIN batchPredRows'[i]
            /\ batchPredRows'[i]["predicted_sentiment"] = At(srvSentiments, i)]_vars
\* two rows merged against a single label
C3_Witness ==
  /\ Len(batchPredRows) = 2 /\ Len(srvSentiments) = 1
  /\ batchPredRows[1]["predicted_sentiment"] = srvSentiments[1]
  /\ batchPredRows[2]["predicted_sentiment"] = UNDEFINED
  /\ batchPredRows[1]["text"] # batchPredRows[2]["text"]
  /\ batchPredRows[2]["text"] = file.data[2]["text"]

\* C5 as stated: the export holds, for each of the N merged rows, every
\* column of the uploaded row with its original value plus
\* predicted_sentiment, and never an id column; parsing the export by header
\* yields N rows whose values, as strings, equal the original values, also
\* for an upload that has a column of its own named id.  (An uploaded
\* predicted_sentiment column is left out of the comparison: the label
\* takes its place.)
C5_Original ==
  download # NULL =>
    LET parsed == ParseCsv(download.csv)
    IN /\ Len(parsed) = Cardinality(KeptIdx(file.data))
       /\ \A i \in 1..Len(parsed) :
            /\ \A k \in DOMAIN Kept(file.data, i) \ {"predicted_sentiment"} :
                 /\ k \in DOMAIN parsed[i]
                 /\ parsed[i][k] = S(JsString(Kept(file.data, i)[k]))
            /\ "predicted_sentiment" \in DOMAIN parsed[i]
            /\ "id" \notin DOMAIN parsed[i]

\* C10: the texts posted to /batch_predict are exactly the text values of the
\* parsed rows whose text is non-empty, in their original order; a row whose
\* text is missing or empty is neither submitted nor merged, and no error
\* state is raised: the only error state of the app stays clear and the
\* loading flag is released once the upload is through
C10_TextsPosted ==
  /\ exploreError = NULL
  /\ batchJobs = <<>> => ~batchLoading
  /\ \A j \in 1..Len(batchJobs) :
       batchJobs[j].stage = "posted" =>
         LET data == batchJobs[j].file.data
             texts == batchJobs[j].texts
         IN /\ Len(texts) = Cardinality(KeptIdx(data))
            /\ \A k \in 1..Len(texts) : texts[k] = Kept(data, k)["text"].v
  /\ Len(batchPredRows) \in {0, Cardinality(KeptIdx(file.data))}
  /\ \A i \in 1..Len(batchPredRows) :
       /\ NonEmptyText(batchPredRows[i])
       /\ batchPredRows[i]["text"] = Kept(file.data, i)["text"]
\* a posted upload whose first row has no text and whose second row has one
C10_Witness ==
  /\ Len(batchJobs) = 1 /\ batchJobs[1].stage = "posted"
  /\ Len(batchJobs[1].file.data) = 2
  /\ ~NonEmptyText(batchJobs[1].file.data[1])
  /\ NonEmptyText(batchJobs[1].file.data[2])
  /\ batchJobs[1].texts = <<batchJobs[1].file.data[2]["text"].v>>

\* C11 as stated: the merged row at 0-based index i has id = i + 1, so the
\* ids of a merged set are unique and run 1..N, also for an upload that has
\* a column of its own named id
C11_Original ==
  /\ \A i \in 1..Len(batchPredRows) : batchPredRows[i]["id"] = N(i)
  /\ \A i, j \in 1..Len(batchPredRows) :
       batchPredRows[i]["id"] = batchPredRows[j]["id"] => i = j

(* --------------------------- flow properties ------------------------- *)
predSlice == <<pred, predLoading>>
exploreSlice == <<explore, exploreLoading, exploreError>>
batchSlice == <<batchPredRows, batchLoading, batchFilename>>
\* rows is one merged row, label attached, for each row of data that has text
CompleteMergeOf(rows, data) ==
  /\ Len(rows) = Cardinality(KeptIdx(data))
  /\ \A i \in 1..Len(rows) :
       /\ "predicted_sentiment" \in DOMAIN rows[i]
       /\ \A k \in DOMAIN Kept(data, i) \ {"predicted_sentiment", "id"} :
            k \in DOMAIN rows[i] /\ rows[i][k] = Kept(data, i)[k]
BatchFailed == \E j \in 1..Len(batchJobs) : ParseError(j) \/ BatchReject(j)

\* C12: batchPredRows is empty or the complete merged set of one upload:
\* starting an upload empties it, it is replaced in one step when that
\* upload's response arrives, it stays empty while the upload is under way
\* and if the parse or the request fails
C12_AtomicReplace ==
  /\ [](batchLoading => batchPredRows = <<>>)
  /\ [][/\ Len(batchJobs') > Len(batchJobs) => batchPredRows' = <<>>
        /\ BatchFailed => batchPredRows' = <<>>
        /\ batchPredRows' # batchPredRows =>
             \/ batchPredRows' = <<>>
             \/ \E j \in 1..Len(batchJobs) :
                  /\ batchJobs[j].stage = "posted"
                  /\ batchJobs' = RemoveAt(batchJobs, j)
                  /\ CompleteMergeOf(batchPredRows', batchJobs[j].file.data)]_vars
\* the merged set of two.csv is stored, its upload is through, and the user
\* has picked one.csv next
C12_Witness ==
  /\ batchJobs = <<>> /\ ~batchLoading /\ batchFilename = "two.csv"
  /\ Len(batchPredRows) = 2
  /\ batchPredRows[1]["predicted_sentiment"] = S(POSITIVE)
  /\ batchPredRows[2]["predicted_sentiment"] = S(NEGATIVE)
  /\ file.name = "one.csv"

\* C16: per flow at most one request is in flight; the loading flag is true
\* while it is, and while the flag is true no step issues a request of that
\* flow
C16_OneInFlight ==
  /\ [](/\ Len(predReqs) <= 1 /\ (predReqs # <<>> => predLoading)
        /\ Len(exploreReqs) <= 1 /\ (exploreReqs # <<>> => exploreLoading)
        /\ Len(batchJobs) <= 1 /\ (batchJobs # <<>> => batchLoading))
  /\ [][/\ predLoading => Len(predReqs') <= Len(predReqs)
        /\ exploreLoading => Len(exploreReqs') <= Len(exploreReqs)
        /\ batchLoading => Len(batchJobs') <= Len(batchJobs)]_vars
\* the single view with a text typed in while its request is in flight
C16_Witness ==
  /\ Shown("single") /\ Trim(text) # <<>>
  /\ predLoading /\ Len(predReqs) = 1

\* C17 as stated: nothing guards the explore flow, so while an explore
\* request is in flight a newer one can be started from the explorer view
\* (and the older response may then overwrite the newer result)
C17_Original ==
  (Shown("explorer") /\ exploreReqs # <<>>) => ENABLED RunExplore

\* C17: runExplore stores every response that arrives, but no explore request
\* starts while another is in flight: a response is stored only when its
\* request is the single one in flight, so the stored result is never older
\* than a request started after it
C17_NoStaleOverwrite ==
  /\ [](Len(exploreReqs) <= 1)
  /\ [][/\ Len(exploreReqs') > Len(exploreReqs) => exploreReqs = <<>>
        /\ explore' # explore => (Len(exploreReqs) = 1 /\ exploreReqs' = <<>>)]_vars
\* a result is stored, the entity filter was changed after Apply, and the
\* request for the former entity is still in flight
C17_Witness ==
  /\ Shown("explorer") /\ explore # NULL
  /\ Len(exploreReqs) = 1 /\ exploreReqs[1].entity # entity

\* C18: a step that starts or completes a request of one flow changes no
\* variable of the state slice of another flow, and the three flows can be
\* in flight together
C18_IndependentSlices ==
  [][/\ predReqs' # predReqs => UNCHANGED <<exploreSlice, batchSlice>>
     /\ exploreReqs' # exploreReqs => UNCHANGED <<predSlice, batchSlice>>
     /\ batchJobs' # batchJobs => UNCHANGED <<predSlice, exploreSlice>>]_vars
\* a predict, an explore and a batch request in flight at once
C18_Witness ==
  /\ Len(predReqs) = 1 /\ Len(exploreReqs) = 1 /\ Len(batchJobs) = 1
  /\ batchJobs[1].stage = "posted"

\* C19: a step in which a request completes (or a parse fails) leaves the
\* flow's loading flag false, the flag is never true with nothing in
\* flight, and a request is issued only from the flow's enabled control,
\* never by a completion step
C19_FlagReleased ==
  /\ [](/\ predReqs = <<>> => ~predLoading
        /\ exploreReqs = <<>> => ~exploreLoading
        /\ batchJobs = <<>> => ~batchLoading)
  /\ [][/\ Len(predReqs') < Len(predReqs) => (~predLoading' /\ predReqs' = <<>>)
        /\ Len(exploreReqs') < Len(exploreReqs)
             => (~exploreLoading' /\ exploreReqs' = <<>>)
        /\ Len(batchJobs') < Len(batchJobs) => (~batchLoading' /\ batchJobs' = <<>>)
        /\ Len(predReqs') > Len(predReqs)
             => (Shown("single") /\ ~predLoading /\ Trim(text) # <<>>)
        /\ Len(exploreReqs') > Len(exploreReqs)
             => (Shown("explorer") /\ ~exploreLoading)
        /\ Len(batchJobs') > Len(batchJobs)
             => (Shown("batch") /\ ~batchLoading)]_vars
\* the parse of broken.csv has failed and the flag is released
C19_Witness ==
  /\ batchFilename = "broken.csv" /\ batchJobs = <<>> /\ ~batchLoading
  /\ Shown("batch")

\* C20: a failed explore request stores a non-empty message, releases
\* exploreLoading and keeps the stored explore result; a failed predict or
\* batch request touches no error state, releases its flag and leaves its
\* result cleared
C20_FailureHandling ==
  /\ [](exploreError # NULL => exploreError.v # "")
  /\ [][/\ (\E i \in 1..Len(exploreReqs), msg \in AppMessages : ExploreReject(i, msg))
             => /\ exploreError' # NULL /\ exploreError'.v # ""
                /\ ~exploreLoading' /\ explore' = explore
        /\ (\E i \in 1..Len(predReqs) : PredictReject(i))
             => /\ pred' = NULL /\ ~predLoading'
                /\ exploreError' = exploreError
        /\ BatchFailed
             => /\ batchPredRows' = <<>> /\ ~batchLoading'
                /\ exploreError' = exploreError]_vars
\* an explore request failed without a message after a result was stored
C20_Witness ==
  /\ exploreError = S(DefaultExploreError) /\ explore # NULL
  /\ ~exploreLoading /\ exploreReqs = <<>>

(* ----------------------- derived series properties -------------------- *)
\* C25: when the mix is exactly one row {A, Positive, 5}, entityScores is the
\* single record {A, pos 5, neg 0, neu 0, total 5, score 1} and A is in both
\* topPositiveEntities and topNegativeEntities; in general, with at most 8
\* distinct entities both lists contain every entity.
C25_SingleRow ==
  LET es == entityScores
      tp == topPositiveEntities
      tn == topNegativeEntities
      mix == MixOf(explore)
  IN /\ mix = ScenarioMix =>
          /\ Len(es) = 1
          /\ es[1].entity = EntityA /\ es[1].pos = 5 /\ es[1].neg = 0
          /\ es[1].neu = 0 /\ es[1].total = 5
          /\ es[1].score.num = es[1].score.den
          /\ tp = es /\ tn = es
     /\ Cardinality(EntitiesOf(mix)) <= TopShown =>
          /\ {tp[i].entity : i \in 1..Len(tp)} = EntitiesOf(mix)
          /\ {tn[i].entity : i \in 1..Len(tn)} = EntitiesOf(mix)
\* the single-row response is stored
C25_Witness ==
  /\ explore # NULL /\ explore.mix = ScenarioMix
  /\ Len(topNegativeEntities) = 1 /\ topNegativeEntities[1].score.num > 0

\* C26: when no explore response is stored, or the stored response has an
\* empty mix, entityScores, topPositiveEntities, topNegativeEntities, their
\* two bar series and the stacked mix arrays x, neg, neu, pos are all empty,
\* and the fold has no entry for which a score would be divided.
C26_EmptyMix ==
  LET NoBar == [labels |-> <<>>, values |-> <<>>]
  IN (explore = NULL \/ MixOf(explore) = <<>>) =>
       /\ entityScores = <<>>
       /\ topPositiveEntities = <<>> /\ topNegativeEntities = <<>>
       /\ topPosBar = NoBar /\ topNegBar = NoBar
       /\ explorerMix = EmptySeries
       /\ \A isSmDown \in BOOLEAN : ExplorerMixSmOf(explore, isSmDown) = EmptySeries
       /\ Len(MixFold(MixOf(explore))) = 0
\* a response without mix rows but with a distribution is stored
C26_Witness ==
  /\ explore # NULL /\ explore.mix = <<>> /\ explore.distribution # <<>>
  /\ topPosBar.labels = <<>>

\* the count of the last row of the pair (e, c), 0 when there is none
LastCount(mix, e, c) ==
  LET hits == {i \in 1..Len(mix) : mix[i].entity = e /\ mix[i].sentiment = c}
  IN IF hits = {} THEN 0
     ELSE mix[CHOOSE i \in hits : \A k \in hits : k <= i].count

\* C27: when an (entity, sentiment) pair occurs in several mix rows, both
\* entityScores and the stacked mix series hold the count of the last such row
\* (overwritten, not summed), so the two derivations agree for every entity
\* and class.
C27_LastRowWins ==
  LET es == entityScores
      em == explorerMix
      mix == MixOf(explore)
  IN /\ Len(em.neg) = Len(em.x) /\ Len(em.neu) = Len(em.x) /\ Len(em.pos) = Len(em.x)
     /\ \A e \in EntitiesOf(mix) :
          \E j \in 1..Len(es), k \in 1..Len(em.x) :
            /\ es[j].entity = e /\ em.x[k] = e
            /\ es[j].pos = LastCount(mix, e, POSITIVE) /\ em.pos[k] = es[j].pos
            /\ es[j].neg = LastCount(mix, e, NEGATIVE) /\ em.neg[k] = es[j].neg
            /\ es[j].neu = LastCount(mix, e, NEUTRAL) /\ em.neu[k] = es[j].neu
\* a pair is repeated with a different count and the later count is shown
C27_Witness ==
  LET mix == MixOf(explore)
  IN \E i, j \in 1..Len(mix) :
       /\ i < j /\ mix[i].entity = mix[j].entity
       /\ mix[i].sentiment = POSITIVE /\ mix[j].sentiment = POSITIVE
       /\ mix[i].count > mix[j].count /\ mix[j].count > 0
       /\ entityScores[1].pos = mix[j].count
       /\ explorerMix.pos[1] = mix[j].count

\* the index of the first mix row of entity e
FirstRow(mix, e) ==
  CHOOSE i \in 1..Len(mix) :
    mix[i].entity = e /\ \A k \in 1..(i - 1) : mix[k].entity # e

\* C24: in the stacked mix series x lists each distinct entity once, in the
\* order of first appearance; neg, neu and pos have the length of x and hold
\* the counts of entity x[i], 0 where the entity has no row of the class; on a
\* small screen x is cut to the first 10 entities and the arrays stay aligned
\* with it.
C24_AlignedSeries ==
  LET em == explorerMix
      mix == MixOf(explore)
  IN /\ {em.x[k] : k \in 1..Len(em.x)} = EntitiesOf(mix)
     /\ \A i, j \in 1..Len(em.x) :
          i < j => FirstRow(mix, em.x[i]) < FirstRow(mix, em.x[j])
     /\ Len(em.neg) = Len(em.x) /\ Len(em.neu) = Len(em.x) /\ Len(em.pos) = Len(em.x)
     /\ \A k \in 1..Len(em.x) :
          /\ em.neg[k] = LastCount(mix, em.x[k], NEGATIVE)
          /\ em.neu[k] = LastCount(mix, em.x[k], NEUTRAL)
          /\ em.pos[k] = LastCount(mix, em.x[k], POSITIVE)
     /\ \A isSmDown \in BOOLEAN :
          LET sm == ExplorerMixSmOf(explore, isSmDown)
              n == IF isSmDown THEN Min(SmDownEntities, Len(em.x)) ELSE Len(em.x)
          IN /\ sm.x = SubSeq(em.x, 1, n)
             /\ sm.neg = SubSeq(em.neg, 1, n)
             /\ sm.neu = SubSeq(em.neu, 1, n)
             /\ sm.pos = SubSeq(em.pos, 1, n)
\* more than 10 entities are stored, so the small screen shows fewer than the
\* large one, and some entity has no row of a class
C24_Witness ==
  LET em == explorerMix
      sm == ExplorerMixSmOf(explore, TRUE)
  IN /\ Len(em.x) > SmDownEntities /\ Len(sm.x) = SmDownEntities
     /\ Len(sm.pos) = SmDownEntities
     /\ \E k \in 1..Len(sm.x) : sm.neu[k] = 0 /\ sm.pos[k] + sm.neg[k] > 0

BoardOf(ex) == IF ex = NULL THEN <<>> ELSE ex.leaderboard
\* the leaderboard arrives ranked: mentions never rise along the array
Ranked(board) ==
  \A i, j \in 1..Len(board) : i < j => board[i].mentions >= board[j].mentions

\* C23 as stated: whatever the order of the leaderboard array, no entry left
\* out of the Top Entities bar has more mentions than an entry shown in it.
C23_Original ==
  LET bar == topEntitiesBar
      board == BoardOf(explore)
  IN \A i \in 1..Len(bar.values), j \in (Len(bar.values) + 1)..Len(board) :
       board[j].mentions <= bar.values[i]

\* C23: the Top Entities bar series holds the first 10 entries of the
\* leaderboard array in the order the server returned them (all entries when
\* there are fewer than 10), labels[i] and values[i] come from the same entry,
\* and these are the 10 entries with the largest mentions when the array
\* arrives ranked by mentions.
C23_FirstTen ==
  LET bar == topEntitiesBar
      board == BoardOf(explore)
  IN /\ Len(bar.labels) = Min(TopEntities, Len(board))
     /\ Len(bar.values) = Len(bar.labels)
     /\ \A i \in 1..Len(bar.labels) :
          bar.labels[i] = board[i].entity /\ bar.values[i] = board[i].mentions
     /\ Ranked(board) =>
          \A i \in 1..Len(bar.values), j \in (Len(bar.values) + 1)..Len(board) :
            board[j].mentions <= bar.values[i]
\* a ranked leaderboard of more than 10 entries is stored and the bar shows
\* its 10 leading ones
C23_Witness ==
  LET bar == topEntitiesBar
      board == BoardOf(explore)
  IN /\ Len(board) > TopEntities /\ Ranked(board)
     /\ Len(bar.labels) = TopEntities
     /\ bar.values[TopEntities] > board[Len(board)].mentions

(* ------------------------ replacement properties --------------------- *)
\* C22: after any sequence of explore requests the stored result is one whole
\* response of the server, never a combination of two, and when a response is
\* stored every derived value is computed from that response alone: no entity,
\* row or count of the response stored before it survives.
C22_ReplacedWhole ==
  /\ [](explore = NULL \/ explore \in ReplaceResponses)
  /\ [][(\E i \in 1..Len(exploreReqs) : ExploreResolve(i)) =>
          LET r == srvExplore
              es == EntityScoresOf(explore')
              em == ExplorerMixOf(explore')
              bar == TopEntitiesBarOf(explore')
              dist == ExplorerDistOf(explore')
              lb == LeaderboardRowsOf(explore')
              sr == SampleRowsOf(explore')
          IN /\ {es[j].entity : j \in 1..Len(es)} = EntitiesOf(r.mix)
             /\ \A j \in 1..Len(es) :
                  /\ es[j].pos = LastCount(r.mix, es[j].entity, POSITIVE)
                  /\ es[j].neg = LastCount(r.mix, es[j].entity, NEGATIVE)
                  /\ es[j].neu = LastCount(r.mix, es[j].entity, NEUTRAL)
             /\ {em.x[k] : k \in 1..Len(em.x)} = EntitiesOf(r.mix)
             /\ Len(bar.labels) = Len(r.leaderboard)
             /\ \A k \in 1..Len(bar.labels) :
                  bar.labels[k] = r.leaderboard[k].entity
                    /\ bar.values[k] = r.leaderboard[k].mentions
             /\ Len(lb) = Len(r.leaderboard)
             /\ \A k \in 1..Len(lb) :
                  lb[k].entity = r.leaderboard[k].entity
                    /\ lb[k].mentions = r.leaderboard[k].mentions
             /\ Len(sr) = Len(r.samples)
             /\ \A k \in 1..Len(sr) : sr[k].text = r.samples[k].text
             /\ Len(dist) = Len(r.distribution)
             /\ \A k \in 1..Len(dist) :
                  dist[k].label = r.distribution[k].sentiment
                    /\ dist[k].value = r.distribution[k].count
             /\ SentimentIndexOf(explore') = SentimentIndexOf(r)]_vars
\* a response with rows of every kind is stored, and a request is in flight
\* whose answer shares no entity, row or count with it
C22_Witness ==
  /\ explore # NULL /\ exploreReqs # <<>>
  /\ explore.mix # <<>> /\ explore.leaderboard # <<>> /\ explore.samples # <<>>
  /\ explore.distribution # <<>>
  /\ srvExplore.samples = <<>> /\ srvExplore.distribution # explore.distribution
  /\ EntitiesOf(srvExplore.mix) \cap EntitiesOf(explore.mix) = {}
  /\ srvExplore.mix # <<>>

(* --------------------------- flow properties ------------------------- *)
\* C21 as stated: in every state reached after a failed request the user has
\* an enabled action that issues the request again: after a failed /meta a
\* step that puts /meta in flight, after a failed /predict, /explore or
\* /batch_predict the trigger of the flow on its view.
C21_Original ==
  /\ metaReq = "failed" => ENABLED (Next /\ metaReq' = "pending")
  /\ (Shown("single") /\ ~predLoading /\ Trim(text) # <<>>) => ENABLED RunPredict
  /\ (Shown("explorer") /\ exploreError # NULL) => ENABLED RunExplore
  /\ (Shown("batch") /\ ~batchLoading) => ENABLED OnBatchFile

\* C28: while a predict request is pending pred is null, and while a batch
\* upload is being parsed or predicted batchPredRows is empty; issuing an
\* explore request leaves the stored explore result in place.
C28_PendingResults ==
  /\ []((predReqs # <<>> \/ predLoading) => pred = NULL)
  /\ []((batchJobs # <<>> \/ batchLoading) => batchPredRows = <<>>)
  /\ [][Len(exploreReqs') > Len(exploreReqs) => explore' = explore]_vars
\* a predict request and a second explore request are pending; the result of
\* the first explore request is still stored
C28_Witness ==
  /\ predReqs # <<>> /\ pred = NULL
  /\ exploreReqs # <<>> /\ exploreLoading
  /\ explore # NULL /\ explore.mix # <<>>

\* C29: whenever an explore request is pending exploreError is null, and the
\* error changes to a message only in a step that takes a request out of
\* flight.
C29_NoErrorWhilePending ==
  /\ []((exploreReqs # <<>> \/ exploreLoading) => exploreError = NULL)
  /\ [][(exploreError' # exploreError /\ exploreError' # NULL)
          => (Len(exploreReqs') < Len(exploreReqs) /\ exploreError = NULL)]_vars
\* an explore request is pending after an earlier one has stored a result
C29_Witness ==
  /\ exploreReqs # <<>> /\ exploreLoading /\ exploreError = NULL
  /\ explore # NULL /\ active = "explorer"

\* C30: no /predict, /explore or /batch_predict request is issued while meta
\* is null; /meta is requested once and its answer is stored for good; after
\* meta is stored a change of view leaves every flow's state and requests
\* in flight as they are.
C30_MetaGate ==
  /\ [](meta = NULL =>
          /\ predReqs = <<>> /\ exploreReqs = <<>> /\ batchJobs = <<>>
          /\ ~predLoading /\ ~exploreLoading /\ ~batchLoading
          /\ pred = NULL /\ explore = NULL /\ batchPredRows = <<>>)
  /\ [](metaReq = "pending" => meta = NULL)
  /\ [][/\ metaReq # "pending" => metaReq' = metaReq
        /\ meta # NULL => meta' = meta
        /\ (Len(predReqs') > Len(predReqs) \/ Len(exploreReqs') > Len(exploreReqs)
              \/ Len(batchJobs') > Len(batchJobs)) => meta # NULL
        /\ active' # active =>
             UNCHANGED <<meta, metaReq, predVars, exploreVars, batchVars>>]_vars
\* a predict request issued on the single view is still in flight on the
\* batch view
C30_Witness ==
  /\ meta # NULL /\ active = "batch"
  /\ predReqs # <<>> /\ predLoading

====
